---- MODULE Spec2Model ----
(***************************************************************************)
(* Model of the packaging scripts of KGCPWAJune25:                         *)
(*   create_deployment_zip.py  (Archive Builder B: walk + should_exclude)  *)
(*   create_aws_zip.py         (Archive Builder A: stage, zip, clean up)   *)
(* Path strings are TLA+ strings; a directory tree is a set of tuples of   *)
(* entry names (one tuple per regular file).                               *)
(***************************************************************************)
EXTENDS Naturals, Sequences, FiniteSets, TLC

VARIABLES
    path_str,      \* should_exclude: the argument of the call under test
    ret,           \* should_exclude: "none" before the call, then "True"/"False"
    tree,          \* B: files below clean-aws-deploy (tuples of names)
    sourceExists,  \* B: whether clean-aws-deploy exists
    zipB,          \* B: kgc-healthcare-BUILD-COMPLETE.zip, [exists, entries]
    zipB0,         \* B: the archive as it was before the run (history)
    walkStack,     \* B: directories os.walk has still to visit
    pcB,           \* B: position in create_deployment_zip
    wd,            \* A: files of the working directory (tuples of names)
    wd0,           \* A: the working directory as it was when the run began
    staging,       \* A: aws-clean-deployment, [exists, files]
    zipA,          \* A: keep-going-care-aws-deployment.zip, [exists, entries]
    walkA,         \* A: directories os.walk has still to visit
    pcA,           \* A: position in the script
    idx,           \* A: index of the running for loop
    runs           \* A: number of runs started

pvars == <<path_str, ret>>
bvars == <<tree, sourceExists, zipB, zipB0, walkStack, pcB>>
avars == <<wd, wd0, staging, zipA, walkA, pcA, idx, runs>>
vars == <<path_str, ret, tree, sourceExists, zipB, zipB0, walkStack, pcB,
          wd, wd0, staging, zipA, walkA, pcA, idx, runs>>

-----------------------------------------------------------------------------
(* Bounds *)

\* most path segments of a should_exclude argument
MaxParts == 3
\* most files of a staging tree (B) or of a working directory (A)
MaxFiles == 3
\* most runs of Archive Builder A in a row
MaxRuns == 2

-----------------------------------------------------------------------------
(* Strings and paths *)

\* Python's `a in b` on str
IsSubstring(a, b) ==
    \E i \in 1..(Len(b) + 1) :
        /\ i + Len(a) - 1 <= Len(b)
        /\ SubSeq(b, i, i + Len(a) - 1) = a

\* str.startswith
StartsWith(s, prefix) ==
    /\ Len(s) >= Len(prefix)
    /\ SubSeq(s, 1, Len(prefix)) = prefix

\* str.endswith
EndsWith(s, suffix) ==
    /\ Len(s) >= Len(suffix)
    /\ SubSeq(s, Len(s) - Len(suffix) + 1, Len(s)) = suffix

\* os.path.join(a, b) on POSIX
os_path_join(a, b) ==
    IF StartsWith(b, "/") THEN b
    ELSE IF a = "" \/ EndsWith(a, "/") THEN a \o b
    ELSE a \o "/" \o b

\* Path(path_str).parts for a relative path: the components between "/",
\* empty and "." components dropped
PathParts(s) ==
    LET RECURSIVE scan(_, _, _)
        scan(i, cur, acc) ==
            LET keep == IF cur \in {"", "."} THEN acc ELSE Append(acc, cur) IN
            IF i > Len(s) THEN keep
            ELSE IF SubSeq(s, i, i) = "/" THEN scan(i + 1, "", keep)
            ELSE scan(i + 1, cur \o SubSeq(s, i, i), acc)
    IN scan(1, "", <<>>)

\* "/".join(parts)
RECURSIVE JoinParts(_)
JoinParts(parts) ==
    IF parts = <<>> THEN ""
    ELSE IF Len(parts) = 1 THEN parts[1]
    ELSE parts[1] \o "/" \o JoinParts(Tail(parts))

\* length of the longest common prefix of two tuples
RECURSIVE CommonPrefixLen(_, _)
CommonPrefixLen(p, q) ==
    IF p = <<>> \/ q = <<>> \/ Head(p) # Head(q) THEN 0
    ELSE 1 + CommonPrefixLen(Tail(p), Tail(q))

\* os.path.relpath(path, start), both relative to the working directory
os_path_relpath(path, start) ==
    LET pp == PathParts(path)
        sp == PathParts(start)
        k == CommonPrefixLen(pp, sp)
        ups == [i \in 1..(Len(sp) - k) |-> ".."]
        rel == ups \o SubSeq(pp, k + 1, Len(pp))
    IN IF rel = <<>> THEN "." ELSE JoinParts(rel)

-----------------------------------------------------------------------------
(* create_deployment_zip.py: the exclusion predicate *)

source_dir == "clean-aws-deploy"

exclude_patterns ==
    {"node_modules", ".git", "dist", ".env", ".DS_Store", "__pycache__",
     "*.log", "*.tmp", ".vscode", ".idea"}

\* the names the dot-prefix rule lets through
dot_exceptions == {".ebextensions", ".platform"}

\* faulty variant: the marker compared with the whole segment name
MatchesPatternExact(pattern, part) == pattern = part

\* faulty variant: the containment test the wrong way round
MatchesPatternReversed(pattern, part) == IsSubstring(part, pattern)

\* `pattern in part`
MatchesPattern(pattern, part) == IsSubstring(pattern, part)

\* faulty variant: the dot-prefix rule without its exceptions
DotRuleNoExceptions(part) == StartsWith(part, ".")

\* `part.startswith('.') and part not in {'.ebextensions', '.platform'}`
DotRule(part) == StartsWith(part, ".") /\ part \notin dot_exceptions

\* the body of the for loop of should_exclude for one part
PartExcludes(part) ==
    \/ \E pattern \in exclude_patterns : MatchesPattern(pattern, part)
    \/ DotRule(part)

\* faulty variant: only the last segment of the path is tested
should_exclude_name_only(p) ==
    LET path_parts == PathParts(p) IN
    path_parts # <<>> /\ PartExcludes(path_parts[Len(path_parts)])

should_exclude(p) ==
    LET path_parts == PathParts(p) IN
    \E i \in 1..Len(path_parts) : PartExcludes(path_parts[i])

-----------------------------------------------------------------------------
(* Directory trees *)

\* all orders in which a directory listing can come back
RECURSIVE Perms(_)
Perms(S) ==
    IF S = {} THEN {<<>>}
    ELSE UNION {{<<x>> \o p : p \in Perms(S \ {x})} : x \in S}

\* the sets of at most k elements of U
RECURSIVE SubsetsUpTo(_, _)
SubsetsUpTo(U, k) ==
    IF k = 0 THEN {{}}
    ELSE LET P == SubsetsUpTo(U, k - 1) IN
         P \cup {s \cup {x} : s \in P, x \in U}

IsPrefix(node, f) ==
    /\ Len(node) <= Len(f)
    /\ SubSeq(f, 1, Len(node)) = node

\* no path of the tree is both a regular file and a directory
WellFormed(files) ==
    \A f \in files, g \in files : f # g => ~IsPrefix(f, g)

\* names of the regular files directly in directory `node`
FilesIn(files, node) ==
    {f[Len(node) + 1] : f \in {g \in files : IsPrefix(node, g) /\ Len(g) = Len(node) + 1}}

\* names of the subdirectories directly in directory `node`
DirsIn(files, node) ==
    {f[Len(node) + 1] : f \in {g \in files : IsPrefix(node, g) /\ Len(g) > Len(node) + 1}}

\* the path string os.walk reports for directory `node` below `top`
RECURSIVE WalkRoot(_, _)
WalkRoot(top, node) ==
    IF node = <<>> THEN top
    ELSE os_path_join(WalkRoot(top, SubSeq(node, 1, Len(node) - 1)), node[Len(node)])

\* the subsequence of s whose elements satisfy Keep
RECURSIVE SelectKept(_, _)
SelectKept(s, keep) ==
    IF s = <<>> THEN <<>>
    ELSE IF Head(s) \in keep THEN <<Head(s)>> \o SelectKept(Tail(s), keep)
    ELSE SelectKept(Tail(s), keep)

-----------------------------------------------------------------------------
(* create_deployment_zip.py: create_deployment_zip *)

\* files a staging tree may hold, relative to clean-aws-deploy
StagingCandidates ==
    { <<"package.json">>,
      <<".env">>,
      <<"app", "index.js">>,
      <<"app", "server.log">>,
      <<"app", "debug.tmp">>,
      <<"app", ".git", "config">>,
      <<"app", ".git", "objects", "pack">>,
      <<"app", ".ebextensions", "env.config">>,
      <<"app", "distribution", "main.js">>,
      <<"node_modules", "pkg", "index.js">>,
      <<".platform", "hooks", "run.sh">>,
      <<".cache", "data.bin">> }

NoZip == [exists |-> FALSE, entries |-> <<>>]
StaleZip == [exists |-> TRUE, entries |-> <<"old/stale.txt">>]

\* faulty variant: the prior archive is left in place
RemoveExistingZipSkipped(z) == z

\* zip_path.unlink() under `if zip_path.exists()`
RemoveExistingZip(z) == IF z.exists THEN NoZip ELSE z

\* zipfile.ZipFile(zip_path, 'w', ...): a new, empty archive
ZipOpenW(z) == [exists |-> TRUE, entries |-> <<>>]

\* the directories os.walk starts with: a top it cannot list yields nothing
WalkStart(exists) == IF exists THEN << <<>> >> ELSE <<>>

\* dirs[:] = [d for d in dirs if not should_exclude(os.path.join(root, d))]
KeptDirs(root, dirs) ==
    {d \in dirs : ~should_exclude(os_path_join(root, d))}

\* the files of one directory that pass `if not should_exclude(file_path)`
KeptFiles(root, files) ==
    {f \in files : ~should_exclude(os_path_join(root, f))}

\* faulty variant: the archive name keeps the staging root
ArcNameFromCwd(root, file, top) == os_path_join(root, file)

\* arcname = os.path.relpath(file_path, source_dir)
ArcName(root, file, top) == os_path_relpath(os_path_join(root, file), top)

BInit ==
    /\ sourceExists \in BOOLEAN
    /\ tree \in {t \in SubsetsUpTo(StagingCandidates, MaxFiles) :
                    /\ WellFormed(t)
                    /\ (~sourceExists => t = {})}
    /\ zipB \in {NoZip, StaleZip}
    /\ zipB0 = zipB
    /\ walkStack = <<>>
    /\ pcB = "remove"

\* lines 12-13
BRemoveExisting ==
    /\ UNCHANGED <<pvars, avars>>
    /\ pcB = "remove"
    /\ zipB' = RemoveExistingZip(zipB)
    /\ pcB' = "open"
    /\ UNCHANGED <<tree, sourceExists, zipB0, walkStack>>

\* line 30 and the call of os.walk in line 31
BOpenZip ==
    /\ UNCHANGED <<pvars, avars>>
    /\ pcB = "open"
    /\ zipB' = ZipOpenW(zipB)
    /\ walkStack' = WalkStart(sourceExists)
    /\ pcB' = "walk"
    /\ UNCHANGED <<tree, sourceExists, zipB0>>

\* lines 31-41: one iteration of the os.walk loop
BWalkStep ==
    /\ UNCHANGED <<pvars, avars>>
    /\ pcB = "walk"
    /\ walkStack # <<>>
    /\ LET node == Head(walkStack)
           root == WalkRoot(source_dir, node)
           dirs == KeptDirs(root, DirsIn(tree, node))
           files == FilesIn(tree, node)
           kept == KeptFiles(root, files)
       IN \E dorder \in Perms(dirs), forder \in Perms(files) :
            /\ zipB' = [zipB EXCEPT !.entries =
                   @ \o [i \in 1..Cardinality(kept) |->
                            ArcName(root, SelectKept(forder, kept)[i], source_dir)]]
            /\ walkStack' = [i \in 1..Len(dorder) |-> Append(node, dorder[i])]
                            \o Tail(walkStack)
    /\ UNCHANGED <<tree, sourceExists, zipB0, pcB>>

\* end of the with block (line 30) and lines 43-46
BReport ==
    /\ UNCHANGED <<pvars, avars>>
    /\ pcB = "walk"
    /\ walkStack = <<>>
    /\ pcB' = IF zipB.exists THEN "done" ELSE "fault"
    /\ UNCHANGED <<tree, sourceExists, zipB, zipB0, walkStack>>

-----------------------------------------------------------------------------
(* create_aws_zip.py *)

staging_dir == "aws-clean-deployment"

\* for dir_name in ['client', 'server', 'shared', 'public']
dir_names == <<"client", "server", "shared", "public">>

files_to_copy ==
    <<"package.json", "package-lock.json", "vite.config.ts",
      "tailwind.config.ts", "postcss.config.js", "tsconfig.json",
      "drizzle.config.ts", ".env.example">>

platform_dir == ".platform"

\* f.write('web: npm start\n')
procfile_text == "web: npm start\n"

\* files a working directory may hold
SourceCandidates ==
    { <<"client", "index.html">>,
      <<"client", ".eslintrc">>,
      <<"client", "node_modules", "pkg", "index.js">>,
      <<"server", "index.ts">>,
      <<"public", "logo.png">>,
      <<".platform", "hooks", "run.sh">>,
      <<"package.json">>,
      <<".env.example">>,
      <<"README.md">>,
      <<"Procfile">>,
      <<"node_modules", "pkg", "index.js">>,
      <<"client">>,
      <<"package.json", "x">> }

\* the bytes of the working-directory file f
SrcData(f) == "bytes of " \o JoinParts(f)

NoStaging == [exists |-> FALSE, files |-> {}]
StaleStaging ==
    [exists |-> TRUE,
     files |-> {[path |-> <<"client", "old.js">>, data |-> "stale bytes"]}]
NoZipA == [exists |-> FALSE, entries |-> <<>>]
StaleZipA ==
    [exists |-> TRUE,
     entries |-> <<[name |-> "client/old.js", data |-> "stale bytes"]>>]

\* os.path.exists(name) in the working directory
PathExists(files, name) == \E f \in files : IsPrefix(<<name>>, f)
IsDirectory(files, name) == \E f \in files : IsPrefix(<<name>>, f) /\ Len(f) > 1

\* faulty variant: the prior archive is left in place
RemoveZipASkipped(z) == z

\* lines 9-10
RemoveZipA(z) == IF z.exists THEN NoZipA ELSE z

\* lines 11-12
RemoveStaging(st) == IF st.exists THEN NoStaging ELSE st

\* writing one file below the staging folder (an existing one is replaced)
WriteFile(files, path, data) ==
    {r \in files : r.path # path} \cup {[path |-> path, data |-> data]}

\* faulty variant: the copy leaves out what Archive Builder B would exclude
CopyTreeFilesFiltered(files, name) ==
    {[path |-> f, data |-> SrcData(f)] :
        f \in {g \in files : IsPrefix(<<name>>, g) /\ ~should_exclude(JoinParts(g))}}

\* shutil.copytree(name, staging/name): every file below name, any name
CopyTreeFiles(files, name) ==
    {[path |-> f, data |-> SrcData(f)] : f \in {g \in files : IsPrefix(<<name>>, g)}}

\* shutil.copytree raises when the source is no directory or the target exists
CopyTreeRaises(files, st, name) ==
    \/ ~IsDirectory(files, name)
    \/ \E r \in st.files : IsPrefix(<<name>>, r.path)

\* faulty variant: copytree without the existence check
UnguardedCopyTree(files, st, name) ==
    IF CopyTreeRaises(files, st, name) THEN [fault |-> TRUE, st |-> st]
    ELSE [fault |-> FALSE,
          st |-> [st EXCEPT !.files = @ \cup CopyTreeFiles(files, name)]]

\* `if os.path.exists(d): shutil.copytree(d, f'aws-clean-deployment/{d}')`
GuardedCopyTree(files, st, name) ==
    IF ~PathExists(files, name) THEN [fault |-> FALSE, st |-> st]
    ELSE IF CopyTreeRaises(files, st, name) THEN [fault |-> TRUE, st |-> st]
    ELSE [fault |-> FALSE,
          st |-> [st EXCEPT !.files = @ \cup CopyTreeFiles(files, name)]]

\* `if os.path.exists(f): shutil.copy2(f, f'aws-clean-deployment/{f}')`
GuardedCopy2(files, st, name) ==
    IF ~PathExists(files, name) THEN [fault |-> FALSE, st |-> st]
    ELSE IF IsDirectory(files, name) THEN [fault |-> TRUE, st |-> st]
    ELSE [fault |-> FALSE,
          st |-> [st EXCEPT !.files = WriteFile(@, <<name>>, SrcData(<<name>>))]]

\* the paths of the files of the staging folder
StagedPaths(st) == {r.path : r \in st.files}

\* the bytes staged under a path
StagedData(st, path) == (CHOOSE r \in st.files : r.path = path).data

\* where an uncaught exception can end the script
FaultPcs ==
    {"fault_copy_dirs", "fault_copy_files", "fault_copy_platform", "fault_getsize"}

\* working directories one edit away from `files`
Edited(files) ==
    {g \in {files \cup {f} : f \in SourceCandidates}
           \cup {files \ {f} : f \in files} :
        WellFormed(g) /\ Cardinality(g) <= MaxFiles}

AInit ==
    /\ wd \in {t \in SubsetsUpTo(SourceCandidates, MaxFiles) : WellFormed(t)}
    /\ wd0 = wd
    /\ staging \in {NoStaging, StaleStaging}
    /\ zipA \in {NoZipA, StaleZipA}
    /\ walkA = <<>>
    /\ pcA = "remove"
    /\ idx = 1
    /\ runs = 1

\* lines 8-12
ARemoveExisting ==
    /\ UNCHANGED <<pvars, bvars>>
    /\ pcA = "remove"
    /\ zipA' = RemoveZipA(zipA)
    /\ staging' = RemoveStaging(staging)
    /\ pcA' = "makedirs"
    /\ UNCHANGED <<wd, wd0, walkA, idx, runs>>

\* line 15: os.makedirs('aws-clean-deployment', exist_ok=True)
AMakeDirs ==
    /\ UNCHANGED <<pvars, bvars>>
    /\ pcA = "makedirs"
    /\ staging' = [staging EXCEPT !.exists = TRUE]
    /\ pcA' = "copy_dirs"
    /\ idx' = 1
    /\ UNCHANGED <<wd, wd0, zipA, walkA, runs>>

\* lines 18-20: one iteration
ACopyDir ==
    /\ UNCHANGED <<pvars, bvars>>
    /\ pcA = "copy_dirs"
    /\ LET r == GuardedCopyTree(wd, staging, dir_names[idx]) IN
         /\ staging' = r.st
         /\ IF r.fault THEN pcA' = "fault_copy_dirs" /\ idx' = idx
            ELSE IF idx < Len(dir_names) THEN pcA' = pcA /\ idx' = idx + 1
            ELSE pcA' = "copy_files" /\ idx' = 1
    /\ UNCHANGED <<wd, wd0, zipA, walkA, runs>>

\* lines 29-31: one iteration
ACopyFile ==
    /\ UNCHANGED <<pvars, bvars>>
    /\ pcA = "copy_files"
    /\ LET r == GuardedCopy2(wd, staging, files_to_copy[idx]) IN
         /\ staging' = r.st
         /\ IF r.fault THEN pcA' = "fault_copy_files" /\ idx' = idx
            ELSE IF idx < Len(files_to_copy) THEN pcA' = pcA /\ idx' = idx + 1
            ELSE pcA' = "copy_platform" /\ idx' = 1
    /\ UNCHANGED <<wd, wd0, zipA, walkA, runs>>

\* lines 34-35
ACopyPlatform ==
    /\ UNCHANGED <<pvars, bvars>>
    /\ pcA = "copy_platform"
    /\ LET r == GuardedCopyTree(wd, staging, platform_dir) IN
         /\ staging' = r.st
         /\ pcA' = IF r.fault THEN "fault_copy_platform" ELSE "procfile"
    /\ UNCHANGED <<wd, wd0, zipA, walkA, idx, runs>>

\* lines 38-39
ACreateProcfile ==
    /\ UNCHANGED <<pvars, bvars>>
    /\ pcA = "procfile"
    /\ staging' = [staging EXCEPT !.files = WriteFile(@, <<"Procfile">>, procfile_text)]
    /\ pcA' = "open_zip"
    /\ UNCHANGED <<wd, wd0, zipA, walkA, idx, runs>>

\* line 42 and the call of os.walk in line 43
AOpenZip ==
    /\ UNCHANGED <<pvars, bvars>>
    /\ pcA = "open_zip"
    /\ zipA' = [exists |-> TRUE, entries |-> <<>>]
    /\ walkA' = WalkStart(staging.exists)
    /\ pcA' = "walk"
    /\ UNCHANGED <<wd, wd0, staging, idx, runs>>

\* lines 43-47: one iteration of the os.walk loop
AWalkStep ==
    /\ UNCHANGED <<pvars, bvars>>
    /\ pcA = "walk"
    /\ walkA # <<>>
    /\ LET node == Head(walkA)
           root == WalkRoot(staging_dir, node)
           dirs == DirsIn(StagedPaths(staging), node)
           files == FilesIn(StagedPaths(staging), node)
       IN \E dorder \in Perms(dirs), forder \in Perms(files) :
            /\ zipA' = [zipA EXCEPT !.entries =
                   @ \o [i \in 1..Len(forder) |->
                            [name |-> ArcName(root, forder[i], staging_dir),
                             data |-> StagedData(staging, Append(node, forder[i]))]]]
            /\ walkA' = [i \in 1..Len(dorder) |-> Append(node, dorder[i])]
                        \o Tail(walkA)
    /\ UNCHANGED <<wd, wd0, staging, pcA, idx, runs>>

\* end of the with block of line 42
ACloseZip ==
    /\ UNCHANGED <<pvars, bvars>>
    /\ pcA = "walk"
    /\ walkA = <<>>
    /\ pcA' = "cleanup"
    /\ UNCHANGED <<wd, wd0, staging, zipA, walkA, idx, runs>>

\* line 50
ACleanup ==
    /\ UNCHANGED <<pvars, bvars>>
    /\ pcA = "cleanup"
    /\ staging' = NoStaging
    /\ pcA' = "getsize"
    /\ UNCHANGED <<wd, wd0, zipA, walkA, idx, runs>>

\* lines 53-58
AGetSize ==
    /\ UNCHANGED <<pvars, bvars>>
    /\ pcA = "getsize"
    /\ pcA' = IF zipA.exists THEN "done" ELSE "fault_getsize"
    /\ UNCHANGED <<wd, wd0, staging, zipA, walkA, idx, runs>>

\* the script is started again, the source tree edited or not in between
ARunAgain ==
    /\ UNCHANGED <<pvars, bvars>>
    /\ pcA \in {"done"} \cup FaultPcs
    /\ runs < MaxRuns
    /\ \E g \in Edited(wd) \cup {wd} :
         /\ wd' = g
         /\ wd0' = g
    /\ runs' = runs + 1
    /\ pcA' = "remove"
    /\ idx' = 1
    /\ walkA' = <<>>
    /\ UNCHANGED <<staging, zipA>>

-----------------------------------------------------------------------------
(* Calls of should_exclude on their own *)

\* names a path segment is drawn from
SegmentNames ==
    {"clean-aws-deploy", "app", "index.js", "git", "node_modules",
     "distribution", "prod.env", "server.log", ".git", ".hidden",
     ".ebextensions", ".platform"}

PInit ==
    /\ path_str \in SegmentNames
    /\ ret = "none"

\* os.path.join(root, d): the path grows by one segment
PJoin ==
    /\ UNCHANGED <<bvars, avars>>
    /\ ret = "none"
    /\ Len(PathParts(path_str)) < MaxParts
    /\ \E seg \in SegmentNames : path_str' = os_path_join(path_str, seg)
    /\ UNCHANGED ret

\* should_exclude(path_str)
PCall ==
    /\ UNCHANGED <<bvars, avars>>
    /\ ret = "none"
    /\ ret' = IF should_exclude(path_str) THEN "True" ELSE "False"
    /\ UNCHANGED path_str

-----------------------------------------------------------------------------
(* Specifications *)

PIdle == path_str = "" /\ ret = "none"
BIdle ==
    /\ tree = {} /\ sourceExists = FALSE /\ zipB = NoZip /\ zipB0 = NoZip
    /\ walkStack = <<>> /\ pcB = "idle"
AIdle ==
    /\ wd = {} /\ wd0 = {} /\ staging = NoStaging /\ zipA = NoZipA
    /\ walkA = <<>> /\ pcA = "idle" /\ idx = 1 /\ runs = 0

InitP == PInit /\ BIdle /\ AIdle
NextP == PJoin \/ PCall
SpecP == InitP /\ [][NextP]_vars

InitB == BInit /\ PIdle /\ AIdle
NextB == BRemoveExisting \/ BOpenZip \/ BWalkStep \/ BReport
SpecB == InitB /\ [][NextB]_vars

InitA == AInit /\ PIdle /\ BIdle
NextA ==
    \/ ARemoveExisting \/ AMakeDirs \/ ACopyDir \/ ACopyFile \/ ACopyPlatform
    \/ ACreateProcfile \/ AOpenZip \/ AWalkStep \/ ACloseZip \/ ACleanup
    \/ AGetSize \/ ARunAgain
SpecA == InitA /\ [][NextA]_vars

-----------------------------------------------------------------------------
(* Properties: helpers *)

\* the elements of a sequence
Range(s) == {s[i] : i \in 1..Len(s)}

\* how often x occurs in sequence s
Occurrences(s, x) == Cardinality({i \in 1..Len(s) : s[i] = x})

\* the path string of staging file f as the walk builds it
FullPath(f) == JoinParts(<<source_dir>> \o f)

\* the staging files whose full path should_exclude lets through
Survivors == {f \in tree : ~should_exclude(FullPath(f))}

\* segment contains one of the marker strings
ContainsMarker(seg) == \E m \in exclude_patterns : IsSubstring(m, seg)

\* segment is one of the marker strings
IsMarker(seg) == seg \in exclude_patterns

IsDotName(seg) == StartsWith(seg, ".")

AllowListed(seg) == seg \in {".ebextensions", ".platform"}

\* the names create_aws_zip.py copies when they exist
ListedDirs == {"client", "server", "shared", "public", ".platform"}
ListedFiles ==
    {"package.json", "package-lock.json", "vite.config.ts", "tailwind.config.ts",
     "postcss.config.js", "tsconfig.json", "drizzle.config.ts", ".env.example"}

\* what a successful run of Archive Builder A must archive for working directory w
ExpectedA(w) ==
    {[name |-> JoinParts(f), data |-> SrcData(f)] :
        f \in {g \in w : \/ (g[1] \in ListedDirs /\ Len(g) >= 2)
                         \/ (g[1] \in ListedFiles /\ Len(g) = 1)}}
    \cup {[name |-> "Procfile", data |-> "web: npm start\n"]}

-----------------------------------------------------------------------------
(* Properties *)

\* C1: in Archive Builder B the pruning of directories and the test of files
\* agree: a file below a directory should_exclude rejects is never archived, and
\* when the walk is over the archived names are exactly those of the files whose
\* full path should_exclude lets through.
C1_PruneAgreesWithFileTest ==
    /\ \A f \in tree : \A k \in 1..(Len(f) - 1) :
          should_exclude(FullPath(SubSeq(f, 1, k)))
              => JoinParts(f) \notin Range(zipB.entries)
    /\ pcB = "done" => Range(zipB.entries) = {JoinParts(f) : f \in Survivors}

C1_Witness ==
    /\ pcB = "done"
    /\ <<"app", ".git", "config">> \in tree
    /\ <<"app", "index.js">> \in tree
    /\ "app/index.js" \in Range(zipB.entries)

\* C2: should_exclude returns True for every path that has, at any depth, a
\* segment containing a marker string that is not an allow-listed name.
C2_MarkerSegmentExcludes ==
    (/\ ret # "none"
     /\ \E i \in 1..Len(PathParts(path_str)) :
           /\ ContainsMarker(PathParts(path_str)[i])
           /\ ~AllowListed(PathParts(path_str)[i]))
        => ret = "True"

C2_Witness ==
    /\ path_str = "clean-aws-deploy/app/distribution"
    /\ ret = "True"

\* C3 as stated: should_exclude returns False for every path whose segments
\* neither start with '.' nor are one of the markers.
C3_Original ==
    (/\ ret # "none"
     /\ \A i \in 1..Len(PathParts(path_str)) :
           /\ ~IsDotName(PathParts(path_str)[i])
           /\ ~IsMarker(PathParts(path_str)[i]))
        => ret = "False"

\* C3 amended: should_exclude returns False for every path whose segments
\* neither start with '.' nor contain a marker string; the staging root
\* segment clean-aws-deploy is such a segment.
C3_CleanSegmentsIncluded ==
    /\ (/\ ret # "none"
        /\ \A i \in 1..Len(PathParts(path_str)) :
              /\ ~IsDotName(PathParts(path_str)[i])
              /\ ~ContainsMarker(PathParts(path_str)[i]))
           => ret = "False"
    /\ ~IsDotName(source_dir) /\ ~ContainsMarker(source_dir)

C3_Witness ==
    /\ path_str = "clean-aws-deploy/app/index.js"
    /\ ret = "False"

\* C4: the allow-list wins over the dot-prefix rule: a staging file is excluded
\* whenever a segment of its path starts with '.' and is not .ebextensions or
\* .platform, an allow-listed segment changes nothing about the verdict on the
\* rest of the path, and the tree app/index.js, app/.git/config,
\* app/.ebextensions/env.config is archived as app/index.js and
\* app/.ebextensions/env.config.
C4_AllowListBeforeDotRule ==
    /\ \A f \in tree :
          /\ (\E i \in 1..Len(f) : IsDotName(f[i]) /\ ~AllowListed(f[i]))
                => should_exclude(FullPath(f))
          /\ should_exclude(FullPath(f))
                = should_exclude(FullPath(SelectKept(f, {n \in Range(f) : ~AllowListed(n)})))
    /\ (/\ pcB = "done"
        /\ tree = { <<"app", "index.js">>, <<"app", ".git", "config">>,
                    <<"app", ".ebextensions", "env.config">> })
           => /\ Range(zipB.entries) = {"app/index.js", "app/.ebextensions/env.config"}
              /\ Len(zipB.entries) = 2

C4_Witness ==
    /\ pcB = "done"
    /\ tree = { <<"app", "index.js">>, <<"app", ".git", "config">>,
                <<"app", ".ebextensions", "env.config">> }
    /\ Len(zipB.entries) = 2

\* C5: when Archive Builder B is done, every staging file that passes the
\* exclusion test is in the archive exactly once, under its path relative to
\* the staging root, and the archive has no other entry.
C5_RoundTrip ==
    pcB = "done" =>
        /\ \A f \in Survivors : Occurrences(zipB.entries, JoinParts(f)) = 1
        /\ \A i \in 1..Len(zipB.entries) :
              \E f \in Survivors : zipB.entries[i] = JoinParts(f)

C5_Witness ==
    /\ pcB = "done"
    /\ Cardinality(Survivors) >= 2
    /\ \E f \in Survivors : Len(f) >= 3

\* C6: in a second or later run of Archive Builder A the prior archive and the
\* prior staging folder are gone before staging starts, and when the run is
\* done the archive holds exactly the entries of that run, each once.
C6_SecondRunReplaces ==
    runs >= 2 =>
        /\ pcA = "makedirs" => ~zipA.exists /\ ~staging.exists
        /\ pcA = "done" =>
              /\ zipA.exists
              /\ Range(zipA.entries) = ExpectedA(wd0)
              /\ Len(zipA.entries) = Cardinality(ExpectedA(wd0))

C6_Witness ==
    /\ runs = 2
    /\ pcA = "done"
    /\ Len(zipA.entries) >= 3

\* C7 as stated: a listed source directory or file missing from the working
\* directory makes the run of Archive Builder A end in a fault, so a run that
\* finishes normally had none missing.
C7_Original ==
    pcA = "done" => \A name \in ListedDirs \cup ListedFiles : PathExists(wd0, name)

\* C7 amended: the copy steps are guarded by existence checks as well: a
\* listed source that is missing is skipped, so a copy step faults only on a
\* name that exists, and a run that is done archived nothing for a missing name.
C7_MissingSourceSkipped ==
    /\ pcA = "fault_copy_dirs" => PathExists(wd0, dir_names[idx])
    /\ pcA = "fault_copy_files" => PathExists(wd0, files_to_copy[idx])
    /\ pcA = "fault_copy_platform" => PathExists(wd0, platform_dir)
    /\ pcA = "done" =>
          \A name \in ListedDirs \cup ListedFiles :
              ~PathExists(wd0, name) =>
                  \A i \in 1..Len(zipA.entries) :
                      PathParts(zipA.entries[i].name)[1] # name

C7_Witness ==
    /\ pcA = "done"
    /\ ~PathExists(wd0, "shared")
    /\ ~PathExists(wd0, "package.json")
    /\ PathExists(wd0, "client")

\* C8: Archive Builder A excludes nothing: a run that is done has archived,
\* under its path in the working directory, every file below client, server,
\* shared, public and .platform and every listed configuration file that was
\* there when the run began, and a Procfile holding the line web: npm start,
\* and nothing else; the staging folder is gone, and it was still there while
\* the archive was written and until it was complete.
C8_NoExclusionInA ==
    /\ pcA = "done" =>
          /\ Range(zipA.entries) = ExpectedA(wd0)
          /\ ~staging.exists
    /\ pcA \in {"open_zip", "walk", "cleanup"} => staging.exists
    /\ pcA = "cleanup" => Range(zipA.entries) = ExpectedA(wd0)

C8_Witness ==
    /\ pcA = "done"
    /\ <<"client", "node_modules", "pkg", "index.js">> \in wd0
    /\ <<"client", ".eslintrc">> \in wd0
    /\ <<"README.md">> \in wd0

\* C9: Archive Builder B archives no file whose name ends in .log or .tmp.
C9_LogAndTmpExcluded ==
    \A i \in 1..Len(zipB.entries) :
        /\ ~EndsWith(zipB.entries[i], ".log")
        /\ ~EndsWith(zipB.entries[i], ".tmp")

\* C10: when clean-aws-deploy does not exist Archive Builder B does not fault:
\* a prior archive is deleted before the new one is opened, and the run ends
\* with an archive of zero entries.
C10_MissingStagingGivesEmptyArchive ==
    ~sourceExists =>
        /\ pcB # "fault"
        /\ pcB = "open" => ~zipB.exists
        /\ pcB = "done" => zipB.exists /\ zipB.entries = <<>>

C10_Witness ==
    /\ ~sourceExists
    /\ pcB = "done"
    /\ zipB0.exists
    /\ zipB0.entries # <<>>
    /\ zipB.entries = <<>>

====
